---- MODULE Spec2Model ----
(***************************************************************************)
(* Model of the matching engine (src/src/engine.rs) with its in-memory     *)
(* event store (src/src/event_store.rs), and of the skip-list order book   *)
(* (src/src/orderbook.rs), which the engine does not use.                  *)
(*                                                                         *)
(* Decimal values are integers (ticks); Option<T> is a sequence of length  *)
(* 0 (None) or 1 (Some).  user_id and the timestamps are carried through   *)
(* the handlers unchanged and are never read by them; they are left out.   *)
(*                                                                         *)
(* Spec runs the commands one at a time on an engine as built by           *)
(* MatchingEngine::new, SpecBook on one whose order_books holds a book,    *)
(* SpecFailingStore on an engine whose event store refuses save_events,    *)
(* and SpecConc interleaves two handle_place_order calls on one engine.    *)
(* SpecOrderBook runs the methods of a SkipListOrderBook from              *)
(* SkipListOrderBook::new.                                                 *)
(***************************************************************************)
EXTENDS Integers, Sequences, FiniteSets, TLC

VARIABLES
    orders,       \* MatchingEngine.orders: order id -> Option<Order>
    trades,       \* MatchingEngine.trades, in the order create_trade made them
    order_books,  \* MatchingEngine.order_books: symbol -> Option<OrderBook>
    events,       \* InMemoryEventStore.events: order id -> events (<<>> = no entry)
    result,       \* what the last call of handle_command returned
    history,      \* the PlaceOrder commands that passed validation, oldest first
    cmdsLeft,     \* commands the behaviour may still handle
    log,          \* every event save_events appended, in the order of the appends
    request,      \* the last command handed to handle_command
    store_fails,  \* the engine's EventStore answers save_events with Err
    calls,        \* the handle_place_order calls that run concurrently:
                  \* command, position, event batch, events still to push
    matched,      \* the concurrent calls in the order in which they ran
                  \* match_order
    saved,        \* the concurrent calls in the order in which their
                  \* save_events returned
    orderbook,    \* a SkipListOrderBook: nodes, level, size, price_map
    ob_call       \* the last call on orderbook: method, arguments, outcome

vars == <<orders, trades, order_books, events, result, history, cmdsLeft,
          log, request, store_fails, calls, matched, saved, orderbook, ob_call>>

\* what the calls on the SkipListOrderBook leave alone
engine_vars == <<orders, trades, order_books, events, result, history, log,
                 request, store_fails, calls, matched, saved>>

\* what the engine leaves alone
book_vars == <<orderbook, ob_call>>

\* what the one-command-at-a-time actions leave alone
conc_vars == <<calls, matched, saved>>

(* ------------------------------ bounds --------------------------------- *)

\* commands handled in one behaviour that starts from MatchingEngine::new
MaxCmds == 3
\* commands handled in one behaviour that starts from a populated book
MaxBookCmds == 1

Symbols == {"BTC/USDT", "ETH/USDT"}
BookSymbol == "BTC/USDT"
Prices == {1, 2}
Qtys == {0, 1, 2}
EntryQtys == {1, 2}
Uuid == 1..(MaxCmds + 1)
\* the values Uuid::new_v4() is seen to return: one that commands carry as an
\* order id too, and one that no command carries
NewV4 == {2, MaxCmds + 1}

(* ------------------------------ types ---------------------------------- *)

None == <<>>
Some(v) == <<v>>
is_some(o) == o # <<>>
is_none(o) == o = <<>>
unwrap(o) == o[1]

Min(a, b) == IF a <= b THEN a ELSE b

OrderType == {"Market", "Limit", "StopLoss", "TakeProfit", "Iceberg", "TrailingStop"}
OrderSide == {"Buy", "Sell"}

(* ------------------------- SkipListOrderBook --------------------------- *)

MAX_LEVEL == 32

\* Decimal::MAX and Decimal::MIN: above and below every price in use
Decimal_MAX == 2147483647
Decimal_MIN == 0 - Decimal_MAX

\* Node::new.  A SkipNode (an Rc<RefCell<Node>>) is the index of the node in
\* the sequence `nodes` of the book; HeadNode is the index of head.
Node(price, lvl) ==
    [price |-> price, orders |-> <<>>, next |-> [i \in 1..lvl |-> None]]
HeadNode == 1

\* SkipListOrderBook::new.  price_map is a function whose domain is the set
\* of keys of the HashMap.
SkipListOrderBook_new ==
    [nodes |-> <<Node(Decimal_MIN, MAX_LEVEL)>>, level |-> 1, size |-> 0,
     price_map |-> <<>>]

\* the values random_level can return
random_level == 1..MAX_LEVEL

\* price_map.entry(price).or_insert_with(Vec::new).push(order)
entry_push(price_map, price, order) ==
    [p \in DOMAIN price_map \cup {price} |->
        IF p \notin DOMAIN price_map THEN <<order>>
        ELSE IF p = price THEN Append(price_map[p], order)
        ELSE price_map[p]]

\* The inner while loop of add_order at level lvl (levels count from 1
\* here, from 0 in the source), started at node cur.  The loop is left by
\* the break alone; when the node has no successor at the level the body
\* does nothing and the loop runs again on the same node, for ever.
RECURSIVE search_level(_, _, _, _)
search_level(nodes, cur, lvl, price) ==
    LET next == nodes[cur].next[lvl]
    IN IF is_none(next) THEN [hang |-> TRUE, at |-> cur]
       ELSE IF nodes[unwrap(next)].price > price THEN [hang |-> FALSE, at |-> cur]
       ELSE search_level(nodes, unwrap(next), lvl, price)

\* The outer while loop of add_order, from level lvl down.  current is the
\* Option the loop carries: current.take() leaves None behind, so at the
\* next level the inner loop is skipped and unwrap() panics.
RECURSIVE search(_, _, _, _, _)
search(nodes, lvl, current, update, price) ==
    IF lvl = 0 THEN [tag |-> "Returned", update |-> update]
    ELSE IF is_none(current) THEN [tag |-> "Panic", update |-> update]
    ELSE LET w == search_level(nodes, unwrap(current), lvl, price)
         IN IF w.hang THEN [tag |-> "Hang", update |-> update]
            ELSE search(nodes, lvl - 1, None, [update EXCEPT ![lvl] = w.at], price)

\* what a call returns, or that it does not return
Returned(v) == [tag |-> "Returned", value |-> v]
NotReturned(tag) == [tag |-> tag, value |-> None]

\* add_order with new_level the value random_level returns: the book after
\* the call and the outcome of the call
add_order(book, order, new_level) ==
    LET price == IF is_some(order.price) THEN unwrap(order.price) ELSE Decimal_MAX
        pm == entry_push(book.price_map, price, order)
        s == search(book.nodes, book.level, Some(HeadNode),
                    [i \in 1..MAX_LEVEL |-> HeadNode], price)
        update == [i \in 1..MAX_LEVEL |->
                     IF new_level > book.level /\ i > book.level /\ i <= new_level
                     THEN HeadNode ELSE s.update[i]]
        n == Len(book.nodes) + 1
        new_node == [price |-> price, orders |-> <<>>,
                     next |-> [i \in 1..new_level |-> book.nodes[update[i]].next[i]]]
        linked(k) == [i \in DOMAIN book.nodes[k].next |->
                        IF i <= new_level /\ update[i] = k THEN Some(n)
                        ELSE book.nodes[k].next[i]]
    IN IF s.tag # "Returned"
       THEN [book |-> [book EXCEPT !.price_map = pm], ret |-> NotReturned(s.tag)]
       ELSE [book |-> [nodes |-> [k \in 1..n |->
                                    IF k = n THEN new_node
                                    ELSE [book.nodes[k] EXCEPT !.next = linked(k)]],
                       level |-> IF new_level > book.level THEN new_level
                                 ELSE book.level,
                       size |-> book.size + 1,
                       price_map |-> pm],
             ret |-> Returned(None)]

\* orders.iter().position(|o| o.id == order_id)
position(os, order_id) ==
    IF \E i \in 1..Len(os) : os[i].id = order_id
    THEN Some(CHOOSE i \in 1..Len(os) :
                 /\ os[i].id = order_id
                 /\ \A j \in 1..(i - 1) : os[j].id # order_id)
    ELSE None

\* Vec::remove(pos)
vec_remove(os, pos) == [i \in 1..(Len(os) - 1) |-> IF i < pos THEN os[i] ELSE os[i + 1]]

remove_order(book, order_id, price) ==
    IF price \notin DOMAIN book.price_map THEN [book |-> book, ret |-> Returned(None)]
    ELSE LET os == book.price_map[price]
             pos == position(os, order_id)
             rest == vec_remove(os, unwrap(pos))
         IN IF is_none(pos) THEN [book |-> book, ret |-> Returned(None)]
            ELSE [book |-> [book EXCEPT
                              !.price_map =
                                  IF rest = <<>>
                                  THEN [p \in DOMAIN book.price_map \ {price} |->
                                           book.price_map[p]]
                                  ELSE [book.price_map EXCEPT ![price] = rest],
                              !.size = book.size - 1],
                  ret |-> Returned(Some(os[unwrap(pos)]))]

\* the while loop of get_best_price, the same in both arms: the price of the
\* first node along next[0] whose orders are not empty
RECURSIVE first_with_orders(_, _)
first_with_orders(nodes, maybe_next) ==
    IF is_none(maybe_next) THEN None
    ELSE LET next == nodes[unwrap(maybe_next)]
         IN IF next.orders # <<>> THEN Some(next.price)
            ELSE first_with_orders(nodes, next.next[1])

get_best_price(book, side) ==
    CASE side = "Buy" -> first_with_orders(book.nodes, book.nodes[HeadNode].next[1])
      [] side = "Sell" -> first_with_orders(book.nodes, book.nodes[HeadNode].next[1])

\* the last call on the book: args are its arguments, ret what it returned
ObCall(op, args, ret) == [op |-> op, args |-> args, ret |-> ret]
NoCall == ObCall("new", <<>>, Returned(None))

get_orders_at_price(book, price) ==
    IF price \in DOMAIN book.price_map THEN Some(book.price_map[price]) ELSE None

\* orders.iter().map(|o| o.quantity).sum()
RECURSIVE total_quantity(_)
total_quantity(os) ==
    IF os = <<>> THEN 0 ELSE Head(os).quantity + total_quantity(Tail(os))

\* the while loop of get_depth
RECURSIVE depth_loop(_, _, _, _)
depth_loop(nodes, maybe_next, depth, res) ==
    IF is_none(maybe_next) THEN res
    ELSE IF Len(res) >= depth THEN res
    ELSE LET next == nodes[unwrap(maybe_next)]
         IN depth_loop(nodes, next.next[1], depth,
                       IF next.orders # <<>>
                       THEN Append(res, [price |-> next.price,
                                         quantity |-> total_quantity(next.orders),
                                         order_count |-> Len(next.orders)])
                       ELSE res)

get_depth(book, depth) ==
    depth_loop(book.nodes, book.nodes[HeadNode].next[1], depth, <<>>)

(* --------------------------- event store ------------------------------- *)

\* the key save_events files an event under
event_order_id(e) == e.order_id

\* save_events that puts each event in place of the vector of its key
\* instead of pushing it
RECURSIVE save_events_replacing(_, _)
save_events_replacing(store, evs) ==
    IF evs = <<>> THEN store
    ELSE LET e == Head(evs)
             k == event_order_id(e)
         IN save_events_replacing([store EXCEPT ![k] = <<e>>], Tail(evs))

RECURSIVE save_events(_, _)
save_events(store, evs) ==
    IF evs = <<>> THEN store
    ELSE LET e == Head(evs)
             k == event_order_id(e)
         IN save_events([store EXCEPT ![k] = Append(@, e)], Tail(evs))

get_events(order_id) == events[order_id]

\* the keys the DashMap of the store holds
StoreKeys == {k \in Uuid : events[k] # <<>>}

\* the orders in which the iterator of the DashMap can visit its entries
IterOrders ==
    {p \in [1..Cardinality(StoreKeys) -> StoreKeys] :
        \A i, j \in DOMAIN p : p[i] = p[j] => i = j}

\* flat_map over the entries in the order p
RECURSIVE flat_map(_)
flat_map(p) == IF p = <<>> THEN <<>> ELSE events[Head(p)] \o flat_map(Tail(p))

\* the results get_all_events can return in the current state, one for
\* each order of iteration
get_all_events == {flat_map(p) : p \in IterOrders}

(* ------------------------------ engine --------------------------------- *)

\* validate_order without the test of the Limit arm
validate_order_any_limit(cmd) ==
    CASE cmd.order_type = "Market" ->
            IF is_some(cmd.price)
            THEN Some("Market orders should not have a price") ELSE None
      [] cmd.order_type = "Limit" -> None
      [] cmd.order_type \in {"StopLoss", "TakeProfit"} ->
            IF is_none(cmd.stop_price)
            THEN Some("Stop orders must have a stop price") ELSE None
      [] cmd.order_type = "Iceberg" ->
            IF is_none(cmd.iceberg_visible_quantity)
            THEN Some("Iceberg orders must have a visible quantity") ELSE None
      [] cmd.order_type = "TrailingStop" ->
            IF is_none(cmd.trailing_stop_price)
            THEN Some("Trailing stop orders must have a trailing stop price") ELSE None

validate_order(cmd) ==
    CASE cmd.order_type = "Market" ->
            IF is_some(cmd.price)
            THEN Some("Market orders should not have a price") ELSE None
      [] cmd.order_type = "Limit" ->
            IF is_none(cmd.price)
            THEN Some("Limit orders must have a price") ELSE None
      [] cmd.order_type \in {"StopLoss", "TakeProfit"} ->
            IF is_none(cmd.stop_price)
            THEN Some("Stop orders must have a stop price") ELSE None
      [] cmd.order_type = "Iceberg" ->
            IF is_none(cmd.iceberg_visible_quantity)
            THEN Some("Iceberg orders must have a visible quantity") ELSE None
      [] cmd.order_type = "TrailingStop" ->
            IF is_none(cmd.trailing_stop_price)
            THEN Some("Trailing stop orders must have a trailing stop price") ELSE None

\* the Order built by handle_place_order from the command
new_order(cmd) ==
    [id |-> cmd.order_id, symbol |-> cmd.symbol, order_type |-> cmd.order_type,
     side |-> cmd.side, price |-> cmd.price, quantity |-> cmd.quantity,
     filled_quantity |-> 0, status |-> "Pending",
     iceberg_visible_quantity |-> cmd.iceberg_visible_quantity,
     stop_price |-> cmd.stop_price,
     trailing_stop_price |-> cmd.trailing_stop_price]

\* tid stands for the Uuid::new_v4() of the trade's own id (taken to be
\* fresh); maker is the Uuid::new_v4() stored as maker_order_id.
create_trade(order, price, quantity, side, tid, maker) ==
    [id |-> tid, symbol |-> order.symbol, price |-> price, quantity |-> quantity,
     side |-> side, taker_order_id |-> order.id, maker_order_id |-> maker]

\* limit_crosses with both comparisons turned round
limit_crosses_reversed(order, best) ==
    IF order.side = "Buy" THEN unwrap(order.price) <= best.price
    ELSE unwrap(order.price) >= best.price

\* the limit test of the two Limit arms
limit_crosses(order, best) ==
    IF order.side = "Buy" THEN unwrap(order.price) >= best.price
    ELSE unwrap(order.price) <= best.price

\* One run of the while loop of match_order over the opposite side `entries`
\* (never modified by the loop).  rnd is the stream of random maker ids,
\* base the number of trades the engine already holds.  The result is the
\* trades made and whether the loop spins without an exit: it does when a
\* Limit order has no price (no arm breaks) and when the entry at the front
\* holds no positive quantity (remaining never falls).  validate_order and
\* the entries of BookSides keep both from happening.
RECURSIVE match_loop(_, _, _, _, _, _)
match_loop(order, entries, remaining, rnd, base, acc) ==
    IF ~(remaining > 0) THEN [trades |-> acc, hang |-> FALSE]
    ELSE IF entries = <<>> THEN [trades |-> acc, hang |-> FALSE]
    ELSE LET best == Head(entries)
             trade_quantity == Min(remaining, best.quantity)
             trade == create_trade(order, best.price, trade_quantity, order.side,
                                   base + Len(acc) + 1, rnd[Len(acc) + 1])
         IN CASE order.order_type = "Market" ->
                    IF trade_quantity <= 0
                    THEN [trades |-> acc, hang |-> TRUE]
                    ELSE match_loop(order, entries, remaining - trade_quantity,
                                    rnd, base, Append(acc, trade))
              [] order.order_type = "Limit" ->
                    IF is_none(order.price) THEN [trades |-> acc, hang |-> TRUE]
                    ELSE IF limit_crosses(order, best)
                    THEN IF trade_quantity <= 0
                         THEN [trades |-> acc, hang |-> TRUE]
                         ELSE match_loop(order, entries, remaining - trade_quantity,
                                         rnd, base, Append(acc, trade))
                    ELSE [trades |-> acc, hang |-> FALSE]
              [] OTHER -> [trades |-> acc, hang |-> FALSE]

\* the side of the book an order of the given side matches against
opposite_entries(book, side) == IF side = "Buy" THEN book.asks ELSE book.bids

\* match_order that takes a missing book for one that holds a level on the
\* side opposite to the order
match_order_default_book(books, order, rnd, base) ==
    IF is_none(books[order.symbol])
    THEN match_loop(order, <<[price |-> 1, quantity |-> 1, order_count |-> 1]>>,
                    order.quantity, rnd, base, <<>>)
    ELSE match_loop(order, opposite_entries(unwrap(books[order.symbol]), order.side),
                    order.quantity, rnd, base, <<>>)

match_order(books, order, rnd, base) ==
    IF is_none(books[order.symbol]) THEN [trades |-> <<>>, hang |-> FALSE]
    ELSE match_loop(order, opposite_entries(unwrap(books[order.symbol]), order.side),
                    order.quantity, rnd, base, <<>>)

OrderPlaced(order) ==
    [type |-> "OrderPlaced", order_id |-> order.id, symbol |-> order.symbol,
     order_type |-> order.order_type, side |-> order.side, price |-> order.price,
     quantity |-> order.quantity, status |-> order.status]

OrderMatched(trade) ==
    [type |-> "OrderMatched", order_id |-> trade.taker_order_id,
     matched_order_id |-> trade.maker_order_id, symbol |-> trade.symbol,
     price |-> trade.price, quantity |-> trade.quantity, side |-> trade.side]

RECURSIVE matched_events(_)
matched_events(ts) ==
    IF ts = <<>> THEN <<>> ELSE <<OrderMatched(Head(ts))>> \o matched_events(Tail(ts))

\* the event list handle_place_order builds: OrderPlaced, then one
\* OrderMatched per trade
place_events(order, ts) == <<OrderPlaced(order)>> \o matched_events(ts)

Ok(evs) == [tag |-> "Ok", events |-> evs, msg |-> ""]
Err(m) == [tag |-> "Err", events |-> <<>>, msg |-> m]
Panic == [tag |-> "Panic", events |-> <<>>, msg |-> "not yet implemented"]
NoResult == [tag |-> "None", events |-> <<>>, msg |-> ""]
\* the Err(String) of an EventStore whose save_events fails
StoreError == "store error"

\* a Command: cmd is Some(PlaceOrderCommand) for Command::PlaceOrder and
\* None for Command::CancelOrder, which carries the order id alone
Request(kind, id, cmd) == [kind |-> kind, order_id |-> id, cmd |-> cmd]
NoRequest == Request("None", 0, None)

get_order_book(symbol) == order_books[symbol]
get_order(order_id) == orders[order_id]
get_trade(trade_id) == IF trade_id \in 1..Len(trades) THEN Some(trades[trade_id]) ELSE None

(* ------------------------------ inputs --------------------------------- *)

\* ids already given to an accepted order, and the next unused one
UsedIds == {i \in Uuid : is_some(orders[i])}
FreshIds == {i \in Uuid : is_none(orders[i]) /\ \A j \in Uuid : j < i => is_some(orders[j])}

Cmd(id, sym, ty, side, price, qty, ice, stop, trail) ==
    [order_id |-> id, symbol |-> sym, order_type |-> ty, side |-> side,
     price |-> price, quantity |-> qty, iceberg_visible_quantity |-> ice,
     stop_price |-> stop, trailing_stop_price |-> trail]

OptPrice == {None} \cup {Some(p) : p \in Prices}
OptOne == {None, Some(1)}

\* The commands offered to the engine.  Limit and Market orders on BookSymbol
\* take every side, price and quantity; the other symbols and the order types
\* match_order does not match take one representative each, with and without
\* the field validate_order asks for.
PlaceOrderCommands(ids) ==
    {Cmd(id, BookSymbol, "Limit", side, price, qty, None, None, None) :
        id \in ids, side \in OrderSide, price \in OptPrice, qty \in Qtys}
    \cup
    {Cmd(id, sym, "Limit", side, Some(1), 1, None, None, None) :
        id \in ids, sym \in Symbols \ {BookSymbol}, side \in OrderSide}
    \cup
    {Cmd(id, BookSymbol, "Market", side, price, qty, None, None, None) :
        id \in ids, side \in OrderSide, price \in OptOne, qty \in Qtys}
    \cup
    {Cmd(id, BookSymbol, ty, "Sell", None, 1, None, stop, None) :
        id \in ids, ty \in {"StopLoss", "TakeProfit"}, stop \in OptOne}
    \cup
    {Cmd(id, BookSymbol, "Iceberg", "Buy", Some(1), 1, ice, None, None) :
        id \in ids, ice \in OptOne}
    \cup
    {Cmd(id, BookSymbol, "TrailingStop", "Sell", None, 1, None, None, trail) :
        id \in ids, trail \in OptOne}

\* a command the engine accepted before, submitted again under the same id
Resubmissions == {history[i] : i \in 1..Len(history)}

Entry(p, q) == [price |-> p, quantity |-> q, order_count |-> 1]
Entries == {Entry(p, q) : p \in Prices, q \in EntryQtys}
\* one side of a populated book: at most two levels, one entry per price
BookSides ==
    {<<>>} \cup {<<e>> : e \in Entries}
    \cup {s \in Entries \X Entries : s[1].price # s[2].price}

(* ------------------------------ actions -------------------------------- *)

Init ==
    /\ orders = [i \in Uuid |-> None]
    /\ trades = <<>>
    /\ order_books = [s \in Symbols |-> None]
    /\ events = [i \in Uuid |-> <<>>]
    /\ result = NoResult
    /\ history = <<>>
    /\ cmdsLeft = MaxCmds
    /\ log = <<>>
    /\ request = NoRequest
    /\ store_fails = FALSE
    /\ calls = <<>>
    /\ matched = <<>>
    /\ saved = <<>>
    /\ orderbook = SkipListOrderBook_new
    /\ ob_call = NoCall

\* An engine whose order_books map (a pub(crate) field) holds a book for
\* BookSymbol.
InitBook ==
    /\ orders = [i \in Uuid |-> None]
    /\ trades = <<>>
    /\ \E b \in BookSides, a \in BookSides :
          order_books = [s \in Symbols |->
                            IF s = BookSymbol THEN Some([bids |-> b, asks |-> a])
                            ELSE None]
    /\ events = [i \in Uuid |-> <<>>]
    /\ result = NoResult
    /\ history = <<>>
    /\ cmdsLeft = MaxBookCmds
    /\ log = <<>>
    /\ request = NoRequest
    /\ store_fails = FALSE
    /\ calls = <<>>
    /\ matched = <<>>
    /\ saved = <<>>
    /\ orderbook = SkipListOrderBook_new
    /\ ob_call = NoCall

handle_place_order(cmd, rnd) ==
    LET v == validate_order(cmd)
        order == new_order(cmd)
        m == match_order(order_books, order, rnd, Len(trades))
        evs == place_events(order, m.trades)
    IN IF is_some(v)
       THEN /\ result' = Err(unwrap(v))
            /\ UNCHANGED <<orders, trades, order_books, events, history, log>>
       ELSE /\ orders' = [orders EXCEPT ![order.id] = Some(order)]
            /\ trades' = trades \o m.trades
            /\ history' = Append(history, cmd)
            /\ UNCHANGED order_books
            /\ IF m.hang
               THEN /\ result' = [tag |-> "Hang", events |-> <<>>, msg |-> ""]
                    /\ UNCHANGED <<events, log>>
               ELSE IF store_fails
               THEN /\ result' = Err(StoreError)
                    /\ UNCHANGED <<events, log>>
               ELSE /\ events' = save_events(events, evs)
                    /\ log' = log \o evs
                    /\ result' = Ok(evs)

PlaceOrder ==
    /\ cmdsLeft > 0
    /\ result.tag # "Hang"
    /\ \E cmd \in PlaceOrderCommands(FreshIds) \cup Resubmissions :
         \E rnd \in [1..cmd.quantity -> NewV4] :
            /\ handle_place_order(cmd, rnd)
            /\ request' = Request("PlaceOrder", cmd.order_id, Some(cmd))
    /\ cmdsLeft' = cmdsLeft - 1
    /\ UNCHANGED <<store_fails, conc_vars, book_vars>>

\* handle_cancel_order is todo!(): the call panics and leaves the engine as
\* it was
CancelOrder ==
    /\ cmdsLeft > 0
    /\ result.tag # "Hang"
    /\ \E id \in UsedIds \cup FreshIds :
          /\ result' = Panic
          /\ request' = Request("CancelOrder", id, None)
    /\ cmdsLeft' = cmdsLeft - 1
    /\ UNCHANGED <<orders, trades, order_books, events, history, log, store_fails,
                   conc_vars, book_vars>>

Next == PlaceOrder \/ CancelOrder

Spec == Init /\ [][Next]_vars

SpecBook == InitBook /\ [][Next]_vars

\* An engine built with an EventStore (a Box<dyn EventStore>) whose
\* save_events returns Err.
InitFailingStore ==
    /\ orders = [i \in Uuid |-> None]
    /\ trades = <<>>
    /\ order_books = [s \in Symbols |-> None]
    /\ events = [i \in Uuid |-> <<>>]
    /\ result = NoResult
    /\ history = <<>>
    /\ cmdsLeft = MaxCmds
    /\ log = <<>>
    /\ request = NoRequest
    /\ store_fails = TRUE
    /\ calls = <<>>
    /\ matched = <<>>
    /\ saved = <<>>
    /\ orderbook = SkipListOrderBook_new
    /\ ob_call = NoCall

SpecFailingStore == InitFailingStore /\ [][Next]_vars

(* ------------------------- concurrent callers -------------------------- *)

\* Two tasks share the engine and call handle_place_order at the same time.
\* A call is a sequence of steps, each one operation on a DashMap:
\*   "start"    -> validate_order, then orders.insert
\*   "inserted" -> match_order, under the guard of order_books.get_mut
\*                 (dropped when match_order returns)
\*   "saving"   -> save_events, one entry(..).push per step
\*   "done"     -> returned
Workers == {1, 2}

\* the books the concurrent calls find: none, as MatchingEngine::new leaves
\* it, or bids of at most one level
ConcBooks ==
    {None} \cup {Some([bids |-> b, asks |-> <<>>]) :
                    b \in {<<>>} \cup {<<Entry(1, q)>> : q \in EntryQtys}}

\* the commands of the concurrent calls, all on BookSymbol
ConcCommands(id) ==
    {Cmd(id, BookSymbol, "Limit", side, price, qty, None, None, None) :
        side \in OrderSide, price \in OptPrice, qty \in EntryQtys}
    \cup {Cmd(id, BookSymbol, "Market", side, None, qty, None, None, None) :
        side \in OrderSide, qty \in EntryQtys}

Call(cmd) ==
    [cmd |-> cmd, pc |-> "start", batch |-> <<>>, pending |-> <<>>,
     result |-> NoResult]

InitConc ==
    /\ orders = [i \in Uuid |-> None]
    /\ trades = <<>>
    /\ \E b \in ConcBooks :
          order_books = [s \in Symbols |-> IF s = BookSymbol THEN b ELSE None]
    /\ events = [i \in Uuid |-> <<>>]
    /\ result = NoResult
    /\ history = <<>>
    /\ cmdsLeft = 0
    /\ log = <<>>
    /\ request = NoRequest
    /\ store_fails = FALSE
    /\ \E c1 \in ConcCommands(1), c2 \in ConcCommands(1) \cup ConcCommands(2) :
          calls = [w \in Workers |-> Call(IF w = 1 THEN c1 ELSE c2)]
    /\ matched = <<>>
    /\ saved = <<>>
    /\ orderbook = SkipListOrderBook_new
    /\ ob_call = NoCall

\* validate_order and orders.insert of the call w
Begin(w) ==
    LET c == calls[w]
        v == validate_order(c.cmd)
        order == new_order(c.cmd)
    IN /\ c.pc = "start"
       /\ IF is_some(v)
          THEN /\ calls' = [calls EXCEPT ![w].pc = "done",
                                         ![w].result = Err(unwrap(v))]
               /\ UNCHANGED <<orders, history>>
          ELSE /\ orders' = [orders EXCEPT ![order.id] = Some(order)]
               /\ history' = Append(history, c.cmd)
               /\ calls' = [calls EXCEPT ![w].pc = "inserted"]
       /\ UNCHANGED <<trades, order_books, events, result, cmdsLeft, log, request,
                      store_fails, matched, saved, book_vars>>

\* match_order of the call w and the event list built from its trades; the
\* guard on the book is gone when the step ends
Match(w) ==
    LET c == calls[w]
        order == new_order(c.cmd)
    IN /\ c.pc = "inserted"
       /\ \E rnd \in [1..c.cmd.quantity -> NewV4] :
             LET m == match_order(order_books, order, rnd, Len(trades))
                 evs == place_events(order, m.trades)
             IN /\ trades' = trades \o m.trades
                /\ calls' = [calls EXCEPT
                               ![w].pc = IF m.hang THEN "hang" ELSE "saving",
                               ![w].batch = evs,
                               ![w].pending = evs]
       /\ matched' = Append(matched, w)
       /\ UNCHANGED <<orders, order_books, events, result, history, cmdsLeft, log,
                      request, store_fails, saved, book_vars>>

\* one turn of the for loop of save_events in the call w; after the last
\* one save_events and handle_place_order return
Push(w) ==
    LET c == calls[w]
        e == Head(c.pending)
        rest == Tail(c.pending)
    IN /\ c.pc = "saving"
       /\ events' = save_events(events, <<e>>)
       /\ log' = Append(log, e)
       /\ IF rest = <<>>
          THEN /\ calls' = [calls EXCEPT ![w].pc = "done", ![w].pending = rest,
                                         ![w].result = Ok(c.batch)]
               /\ saved' = Append(saved, w)
          ELSE /\ calls' = [calls EXCEPT ![w].pending = rest]
               /\ UNCHANGED saved
       /\ UNCHANGED <<orders, trades, order_books, result, history, cmdsLeft,
                      request, store_fails, matched, book_vars>>

NextConc == \E w \in Workers : Begin(w) \/ Match(w) \/ Push(w)

SpecConc == InitConc /\ [][NextConc]_vars

(* ---------------------- calls on a SkipListOrderBook ------------------- *)

MaxOps == 3

\* the orders handed to add_order
BookOrders ==
    {new_order(Cmd(id, BookSymbol, "Limit", "Buy", price, qty, None, None, None)) :
        id \in Uuid, price \in OptPrice, qty \in EntryQtys}

\* the prices handed to remove_order
BookPrices == Prices \cup {Decimal_MAX}

\* the depths handed to get_depth
Depths == 0..MaxOps

\* A book as SkipListOrderBook::new builds it; the engine is not used.
InitOrderBook ==
    /\ orders = [i \in Uuid |-> None]
    /\ trades = <<>>
    /\ order_books = [s \in Symbols |-> None]
    /\ events = [i \in Uuid |-> <<>>]
    /\ result = NoResult
    /\ history = <<>>
    /\ cmdsLeft = MaxOps
    /\ log = <<>>
    /\ request = NoRequest
    /\ store_fails = FALSE
    /\ calls = <<>>
    /\ matched = <<>>
    /\ saved = <<>>
    /\ orderbook = SkipListOrderBook_new
    /\ ob_call = NoCall

\* a call can be made: the caller has calls left and the call before has
\* returned (the book is borrowed &mut for the length of a call)
CanCall == cmdsLeft > 0 /\ ob_call.ret.tag = "Returned"

AddOrder ==
    /\ CanCall
    /\ \E order \in BookOrders, new_level \in random_level :
          LET a == add_order(orderbook, order, new_level)
          IN /\ orderbook' = a.book
             /\ ob_call' = ObCall("add_order", <<order>>, a.ret)
    /\ cmdsLeft' = cmdsLeft - 1
    /\ UNCHANGED engine_vars

RemoveOrder ==
    /\ CanCall
    /\ \E order_id \in Uuid, price \in BookPrices :
          LET r == remove_order(orderbook, order_id, price)
          IN /\ orderbook' = r.book
             /\ ob_call' = ObCall("remove_order", <<order_id, price>>, r.ret)
    /\ cmdsLeft' = cmdsLeft - 1
    /\ UNCHANGED engine_vars

GetBestPrice ==
    /\ CanCall
    /\ \E side \in OrderSide :
          ob_call' = ObCall("get_best_price", <<side>>,
                            Returned(get_best_price(orderbook, side)))
    /\ cmdsLeft' = cmdsLeft - 1
    /\ UNCHANGED <<engine_vars, orderbook>>

GetDepth ==
    /\ CanCall
    /\ \E depth \in Depths :
          ob_call' = ObCall("get_depth", <<depth>>,
                            Returned(get_depth(orderbook, depth)))
    /\ cmdsLeft' = cmdsLeft - 1
    /\ UNCHANGED <<engine_vars, orderbook>>

NextOrderBook == AddOrder \/ RemoveOrder \/ GetBestPrice \/ GetDepth

SpecOrderBook == InitOrderBook /\ [][NextOrderBook]_vars

(* ------------------------- reading a state ----------------------------- *)

\* the last handled command was a PlaceOrder that returned Ok; it is the last
\* entry of history and result.events is what it returned
JustPlaced == result.tag = "Ok" /\ history # <<>>
LastCmd == history[Len(history)]

Terminal == {"Filled", "Canceled", "Rejected"}

\* history[i] is an earlier Limit order that, by the engine's own record, is
\* still open: accepted, not terminal, with quantity left
RestingLimit(i) ==
    LET c == history[i]
        o == get_order(c.order_id)
    IN /\ c.order_type = "Limit"
       /\ c.order_id # LastCmd.order_id
       /\ is_some(o)
       /\ unwrap(o).status \notin Terminal
       /\ unwrap(o).quantity - unwrap(o).filled_quantity > 0

\* taker crosses maker: same symbol, opposite sides, and the prices meet (a
\* Market taker meets any price)
Crosses(taker, maker) ==
    /\ taker.symbol = maker.symbol
    /\ taker.side # maker.side
    /\ taker.order_type \in {"Limit", "Market"}
    /\ taker.quantity > 0
    /\ \/ taker.order_type = "Market"
       \/ /\ taker.order_type = "Limit"
          /\ IF taker.side = "Buy" THEN unwrap(taker.price) >= unwrap(maker.price)
             ELSE unwrap(taker.price) <= unwrap(maker.price)

\* the OrderMatched events of an event list, and the quantity they add up to
Matched(evs) == SelectSeq(evs, LAMBDA e : e.type = "OrderMatched")

RECURSIVE SumQuantity(_)
SumQuantity(evs) == IF evs = <<>> THEN 0 ELSE Head(evs).quantity + SumQuantity(Tail(evs))

LimitCmd(c, side, price, qty) ==
    /\ c.order_type = "Limit" /\ c.side = side
    /\ c.price = Some(price) /\ c.quantity = qty

(* ------------------------------ claims --------------------------------- *)

\* C1: a Limit or Market order that crosses a resting opposite-side limit
\* order of the same symbol returns OrderPlaced followed by at least one
\* OrderMatched, so at least two events.
C1_CrossingOrderReturnsMatch ==
    (JustPlaced /\ \E i \in 1..(Len(history) - 1) :
                      RestingLimit(i) /\ Crosses(LastCmd, history[i]))
    => /\ Len(result.events) >= 2
       /\ result.events[1].type = "OrderPlaced"
       /\ result.events[2].type = "OrderMatched"

\* C2: on a new engine, after a Buy limit (p, q) and then a Sell limit (p, q)
\* on the same symbol, get_order_book(symbol) is a book and its bids and asks
\* are both empty.
C2_BasicMatchLeavesEmptyBook ==
    (/\ JustPlaced /\ Len(history) = 2
     /\ history[1].order_id # history[2].order_id
     /\ history[1].symbol = history[2].symbol
     /\ \E p \in Prices, q \in Qtys \ {0} :
           LimitCmd(history[1], "Buy", p, q) /\ LimitCmd(history[2], "Sell", p, q))
    => /\ is_some(get_order_book(LastCmd.symbol))
       /\ unwrap(get_order_book(LastCmd.symbol)).bids = <<>>
       /\ unwrap(get_order_book(LastCmd.symbol)).asks = <<>>

\* C3: a Limit order with quantity left after matching on arrival is in the
\* book when handle_place_order returns: the book of its symbol has a level
\* at its limit price on its own side.
C3_ResidualLimitRests ==
    (/\ JustPlaced /\ LastCmd.order_type = "Limit"
     /\ LastCmd.quantity - SumQuantity(Matched(result.events)) > 0)
    => /\ is_some(get_order_book(LastCmd.symbol))
       /\ LET book == unwrap(get_order_book(LastCmd.symbol))
              own == IF LastCmd.side = "Buy" THEN book.bids ELSE book.asks
          IN \E k \in 1..Len(own) : own[k].price = unwrap(LastCmd.price)

\* C4: price priority.  On a new engine, bids placed at a lower and then at a
\* higher price (quantity 1 each) and then a Sell limit at the lower price
\* (quantity 1): the sell trades at the higher bid and exactly one bid level
\* is left, at the lower price.
C4_PricePriority ==
    (/\ JustPlaced /\ Len(history) = 3
     /\ Cardinality({history[i].order_id : i \in 1..3}) = 3
     /\ \A i \in 1..3 : history[i].symbol = history[1].symbol
     /\ \E lo \in Prices, hi \in Prices :
           /\ lo < hi
           /\ LimitCmd(history[1], "Buy", lo, 1)
           /\ LimitCmd(history[2], "Buy", hi, 1)
           /\ LimitCmd(history[3], "Sell", lo, 1))
    => /\ Len(Matched(result.events)) = 1
       /\ Matched(result.events)[1].price = unwrap(history[2].price)
       /\ is_some(get_order_book(LastCmd.symbol))
       /\ LET book == unwrap(get_order_book(LastCmd.symbol))
          IN /\ Len(book.bids) = 1
             /\ book.bids[1].price = unwrap(history[1].price)
             /\ book.asks = <<>>

\* the trades whose taker is the order with this id
TakerTrades(id) == SelectSeq(trades, LAMBDA t : t.taker_order_id = id)

\* the opposite side of the book the order with this id is matched against
OppositeOf(o) ==
    IF is_some(get_order_book(o.symbol))
    THEN opposite_entries(unwrap(get_order_book(o.symbol)), o.side)
    ELSE <<>>

\* what the entries of one side hold at price p
QuantityAt(entries, p) == SumQuantity(SelectSeq(entries, LAMBDA e : e.price = p))

\* C6: price improvement.  Every trade of a Limit taker is made at the price
\* of an entry resting on the opposite side, and that price is not worse than
\* the taker's limit: at most the limit for a Buy, at least the limit for a
\* Sell.
C6_PriceImprovement ==
    \A i \in 1..Len(trades) :
        LET t == trades[i]
            o == unwrap(get_order(t.taker_order_id))
            opp == OppositeOf(o)
        IN o.order_type = "Limit" =>
              /\ \E k \in 1..Len(opp) : opp[k].price = t.price
              /\ IF o.side = "Buy" THEN t.price <= unwrap(o.price)
                 ELSE t.price >= unwrap(o.price)

\* C6 witness: a Limit taker has traded at a price strictly better than its
\* limit.
C6_Witness ==
    \E i \in 1..Len(trades) :
        LET t == trades[i]
            o == unwrap(get_order(t.taker_order_id))
        IN /\ o.order_type = "Limit"
           /\ t.price # unwrap(o.price)

C8_FilledIffComplete ==
    \A id \in Uuid :
        is_some(get_order(id)) =>
            LET o == unwrap(get_order(id))
            IN /\ o.filled_quantity <= o.quantity
               /\ (o.status = "Filled") <=> (o.filled_quantity = o.quantity)
               /\ SumQuantity(TakerTrades(id)) >= o.quantity => o.status = "Filled"

\* id is the id of a Limit order placed before the taker, on the other side
\* of the taker's symbol
PlacedOpposite(id, taker) ==
    \E j \in 1..Len(history) :
        /\ history[j].order_id = id
        /\ id # taker.id
        /\ history[j].order_type = "Limit"
        /\ history[j].symbol = taker.symbol
        /\ history[j].side # taker.side

C10_MarketResidualCanceled ==
    (/\ JustPlaced /\ LastCmd.order_type = "Market"
     /\ LastCmd.quantity - SumQuantity(Matched(result.events)) > 0)
    => /\ result.events[Len(result.events)].type = "OrderCanceled"
       /\ result.events[Len(result.events)].order_id = LastCmd.order_id

(* --------------------- commands and the event store -------------------- *)

\* the last step handled a PlaceOrder command
PlaceRequest == request.kind = "PlaceOrder"
RequestCmd == unwrap(request.cmd)

\* c passed validation in an earlier command
Accepted(c) == \E i \in 1..Len(history) : history[i] = c

\* C11: submitting again a PlaceOrder command that was accepted before
\* changes neither the event store nor the orders, trades and books, and a
\* command submitted twice in a row returns the same event list both times.
C11_ResubmissionIdempotent ==
    [][(request'.kind = "PlaceOrder" /\ Accepted(unwrap(request'.cmd)))
        => /\ events' = events
           /\ orders' = orders
           /\ trades' = trades
           /\ order_books' = order_books
           /\ (JustPlaced /\ LastCmd = unwrap(request'.cmd))
                 => (result'.tag = "Ok" /\ result'.events = result.events)]_vars

\* C12: CancelOrder always returns, and for an order that was placed it
\* returns OrderCanceled for that order.
C12_CancelReturnsCanceled ==
    request.kind = "CancelOrder" =>
        /\ result.tag \in {"Ok", "Err"}
        /\ is_some(get_order(request.order_id)) =>
              /\ result.tag = "Ok"
              /\ \E k \in 1..Len(result.events) :
                    /\ result.events[k].type = "OrderCanceled"
                    /\ result.events[k].order_id = request.order_id

\* the shapes C13 lists: a field the order type forbids is present, or one
\* it requires is missing
Malformed(c) ==
    \/ c.order_type = "Market" /\ is_some(c.price)
    \/ c.order_type = "Limit" /\ is_none(c.price)
    \/ c.order_type \in {"StopLoss", "TakeProfit"} /\ is_none(c.stop_price)
    \/ c.order_type = "Iceberg" /\ is_none(c.iceberg_visible_quantity)
    \/ c.order_type = "TrailingStop" /\ is_none(c.trailing_stop_price)

\* C13: a PlaceOrder command of a malformed shape returns Err, appends
\* nothing to the event store and leaves orders, trades and books as they
\* were.
C13_RejectedHasNoEffect ==
    [][(request'.kind = "PlaceOrder" /\ Malformed(unwrap(request'.cmd)))
        => /\ result'.tag = "Err"
           /\ events' = events
           /\ log' = log
           /\ orders' = orders
           /\ trades' = trades
           /\ order_books' = order_books]_vars

\* C13 witness: a malformed command was rejected by an engine that already
\* holds an order and its events.
C13_Witness ==
    /\ PlaceRequest /\ Malformed(RequestCmd)
    /\ result.tag = "Err"
    /\ history # <<>>
    /\ log # <<>>

\* C14: a PlaceOrder command whose quantity is zero or less returns Err,
\* and no order record or stored event carries such a quantity.
C14_NonPositiveQuantityRejected ==
    /\ (PlaceRequest /\ RequestCmd.quantity <= 0) => result.tag = "Err"
    /\ \A id \in Uuid :
          is_some(get_order(id)) => unwrap(get_order(id)).quantity > 0
    /\ \A i \in 1..Len(log) : log[i].quantity > 0

\* C15: when save_events returns Err the command returns Err and orders,
\* trades and books are as they were before the command.
C15_StoreFailureLeavesState ==
    [][(request'.kind = "PlaceOrder" /\ result'.tag = "Err"
            /\ result'.msg = StoreError)
        => /\ orders' = orders
           /\ trades' = trades
           /\ order_books' = order_books]_vars

\* C16: whatever the order of iteration, get_all_events returns the saved
\* events in the order in which they were appended.
C16_AllEventsInAppendOrder == \A r \in get_all_events : r = log

\* the events of log filed under id, in the order of log
LogOf(id) == SelectSeq(log, LAMBDA e : event_order_id(e) = id)

\* C17: get_events(order_id) is the sequence of the events saved under that
\* id, in the order in which they were appended, and it is empty for an id
\* under which nothing was saved.
C17_EventsOfOrderInAppendOrder == \A id \in Uuid : get_events(id) = LogOf(id)

\* C17 witness: an id holds the events of two save_events calls, with the
\* events of another id saved in between, and some id holds nothing.
C17_Witness ==
    /\ \E i, j, k \in 1..Len(log) :
          /\ i < j /\ j < k
          /\ log[i].order_id = log[k].order_id
          /\ log[j].order_id # log[i].order_id
          /\ Len(get_events(log[i].order_id)) >= 2
    /\ \E id \in Uuid : get_events(id) = <<>>

\* the event list handle_place_order returns for cmd in the current state
\* when create_trade draws the maker ids rnd
returned_events(cmd, rnd) ==
    LET order == new_order(cmd)
    IN place_events(order, match_order(order_books, order, rnd, Len(trades)).trades)

Range(s) == {s[i] : i \in DOMAIN s}

\* the batches of the concurrent calls can be told apart in the store: no
\* batch holds an event twice and no two batches share an event
Separable ==
    /\ \A w \in Workers :
          \A i, j \in DOMAIN calls[w].batch :
              calls[w].batch[i] = calls[w].batch[j] => i = j
    /\ \A w, v \in Workers :
          w # v => Range(calls[w].batch) \cap Range(calls[v].batch) = {}

\* b lies in s as one block
Contiguous(b, s) ==
    \E k \in 0..(Len(s) - Len(b)) : SubSeq(s, k + 1, k + Len(b)) = b

Unsaved == {w \in Workers : calls[w].pc = "saving"}

PriceOf(o) == IF is_some(o.price) THEN unwrap(o.price) ELSE Decimal_MAX

\* the queue of the book at price p, empty when the book has no such level
QueueAt(book, p) ==
    IF is_some(get_orders_at_price(book, p))
    THEN unwrap(get_orders_at_price(book, p)) ELSE <<>>

\* the prices at which an order rests in the book
RestingPrices(book) == DOMAIN book.price_map

\* the book can be called: the call before has returned
Callable == ob_call.ret.tag = "Returned"

\* C21: add_order(o) returns with size one greater and o at the end of the
\* queue at its price, and remove_order(o.id, price) after it returns
\* Some(o) and puts size and the price levels back as they were before the
\* add.
C21_AddRemoveRoundTrip ==
    Callable =>
        \A o \in BookOrders, new_level \in random_level :
            LET a == add_order(orderbook, o, new_level)
                r == remove_order(a.book, o.id, PriceOf(o))
            IN /\ a.ret.tag = "Returned"
               /\ a.book.size = orderbook.size + 1
               /\ QueueAt(a.book, PriceOf(o)) = Append(QueueAt(orderbook, PriceOf(o)), o)
               /\ r.ret = Returned(Some(o))
               /\ r.book.size = orderbook.size
               /\ r.book.price_map = orderbook.price_map

\* get_best_price of the book is the greatest resting price for Buy, the
\* least for Sell, and None for both when no order rests
BestIsMostAggressive(book) ==
    LET ps == RestingPrices(book)
    IN IF ps = {}
       THEN /\ get_best_price(book, "Buy") = None
            /\ get_best_price(book, "Sell") = None
       ELSE /\ get_best_price(book, "Buy") = Some(CHOOSE p \in ps : \A q \in ps : q <= p)
            /\ get_best_price(book, "Sell") = Some(CHOOSE p \in ps : \A q \in ps : p <= q)

\* C22: get_best_price returns the most aggressive resting price, in the
\* book as it is, after an order was added, and after that order was
\* removed again.
C22_BestPriceIsMostAggressive ==
    Callable =>
        /\ BestIsMostAggressive(orderbook)
        /\ \A o \in BookOrders, new_level \in random_level :
              LET a == add_order(orderbook, o, new_level)
              IN /\ a.ret.tag = "Returned"
                 /\ BestIsMostAggressive(a.book)
                 /\ BestIsMostAggressive(remove_order(a.book, o.id, PriceOf(o)).book)

\* C23: after add_order for two orders at distinct prices on a new book,
\* get_best_price(Buy) returns Some of the lower of the two prices.
C23_BestBuyIsLowestAdded ==
    (Callable /\ orderbook = SkipListOrderBook_new) =>
        \A o1, o2 \in BookOrders, l1, l2 \in random_level :
            (o1.id # o2.id /\ PriceOf(o1) # PriceOf(o2)) =>
                LET a1 == add_order(orderbook, o1, l1)
                    a2 == add_order(a1.book, o2, l2)
                IN /\ a1.ret.tag = "Returned"
                   /\ a2.ret.tag = "Returned"
                   /\ get_best_price(a2.book, "Buy")
                         = Some(Min(PriceOf(o1), PriceOf(o2)))

\* get_depth(k) of the book: min(k, number of resting prices) entries, the
\* i-th one for the i-th lowest resting price, with the number of orders at
\* that price and their summed quantity
DepthIsLowestLevels(book, k) ==
    LET ps == RestingPrices(book)
        d == get_depth(book, k)
    IN /\ Len(d) = Min(k, Cardinality(ps))
       /\ \A i \in 1..Len(d) :
             /\ d[i].price \in ps
             /\ Cardinality({q \in ps : q < d[i].price}) = i - 1
             /\ d[i].order_count = Len(QueueAt(book, d[i].price))
             /\ d[i].quantity = total_quantity(QueueAt(book, d[i].price))

\* C24: get_depth(k) returns the k lowest price levels in ascending order,
\* each with its order count and aggregate quantity, in the book as it is
\* and after an order was added.
C24_DepthIsLowestLevels ==
    Callable =>
        \A k \in Depths :
            /\ DepthIsLowestLevels(orderbook, k)
            /\ \A o \in BookOrders, new_level \in random_level :
                  LET a == add_order(orderbook, o, new_level)
                  IN /\ a.ret.tag = "Returned"
                     /\ DepthIsLowestLevels(a.book, k)

\* C25: every call of add_order returns.
C25_AddOrderTerminates ==
    ob_call.op = "add_order" => ob_call.ret.tag = "Returned"

====
